---- MODULE Spec2Model ----
(***************************************************************************)
(* The partition search space of code/datastructures.py: partition nodes   *)
(* (SearchSpaceNode), levels (SearchSpaceLevel) and the level-by-level      *)
(* build of SearchSpace, together with the calls a driver makes on a built  *)
(* search space.                                                            *)
(***************************************************************************)
EXTENDS Integers, Sequences, FiniteSets, TLC

\* Largest number of nodes of an input graph.
MaxN == 4
\* Largest number of nodes of an input graph when the driver also calls the
\* level API after the build (ApiSpec).
MaxApiN == 3
\* Largest number of build() calls on one search space (ApiSpec).
MaxBuilds == 2

\* Python's None as the value of a level reference (_next, _previous).
None == 0
\* Python's None as the value of _num_partitions.
NoCount == -1

VARIABLES
    graph,      \* SearchSpace._graph: [nodes, edges], edges are 2-element sets
    compress,   \* SearchSpace._compress
    heap,       \* the level objects reachable from the search space, by id
    levels,     \* SearchSpace._levels: a sequence of level ids, <<>> for None
    pc,         \* position inside build(), "idle" outside of it
    builds,     \* number of build() calls made so far
    result      \* what the last finished call raised or returned

vars == <<graph, compress, heap, levels, pc, builds, result>>

-----------------------------------------------------------------------------
(* Input graphs: simple undirected graphs on the nodes 1..n (what          *)
(* read_graphs produces from graph6 rows, before its connectivity filter). *)

Pairs(S) == {e \in SUBSET S : Cardinality(e) = 2}

Graphs(maxn) ==
    UNION {{[nodes |-> 1..n, edges |-> E] : E \in SUBSET Pairs(1..n)} : n \in 0..maxn}

\* Nodes reachable from the nodes of R along edges of E.
RECURSIVE Reach(_, _)
Reach(R, E) ==
    LET R2 == R \cup UNION {e \in E : e \cap R # {}}
    IN  IF R2 = R THEN R ELSE Reach(R2, E)

\* networkx.is_connected on a graph that has nodes.
is_connected(g) ==
    /\ g.nodes # {}
    /\ Reach({CHOOSE v \in g.nodes : TRUE}, g.edges) = g.nodes

-----------------------------------------------------------------------------
(* SearchSpaceNode: a graph whose vertices are clusters (sets of original  *)
(* nodes); V is the vertex set, E the edge set, an edge a set of two       *)
(* clusters.                                                                *)

\* freeze(x) for an original node x: the singleton cluster.
freeze(x) == {x}

\* SearchSpaceNode.__init__ on the input graph.
RootNode(g) ==
    [V |-> {freeze(v) : v \in g.nodes},
     E |-> {{freeze(v) : v \in e} : e \in g.edges}]

\* A faulty __eq__: nodes with equally many edges compare equal.
NodeEqByEdgeCount(x, y) == Cardinality(x.E) = Cardinality(y.E)

\* SearchSpaceNode.__eq__: the edge views are equal as sets.
NodeEq(x, y) == x.E = y.E

\* A faulty new_graph: only one endpoint of the merged edge is replaced by
\* the merged cluster, the other one stays on the edges that touch it.
NewGraphKeepsAnEndpoint(n, edge) ==
    LET new_node == UNION edge
        s == CHOOSE a \in edge : TRUE
        newE == {{IF a = s THEN new_node ELSE a : a \in e} : e \in n.E \ {edge}}
    IN  [V |-> {new_node} \cup UNION newE, E |-> newE]

\* The graph new_graph that expand builds for the edge `edge` of node n:
\* the merged cluster is added as a vertex, every other edge is re-added with
\* an endpoint of `edge` replaced by the merged cluster, and a vertex enters
\* only as the merged cluster or as an endpoint of a re-added edge.
NewGraph(n, edge) ==
    LET new_node == UNION edge
        newE == {{IF a \in edge THEN new_node ELSE a : a \in e} : e \in n.E \ {edge}}
    IN  [V |-> {new_node} \cup UNION newE, E |-> newE]

\* The assertion of expand: the child has one vertex less than its parent.
AssertOrder(n, edge) == Cardinality(NewGraph(n, edge).V) = Cardinality(n.V) - 1

\* A faulty expand: one edge of the node is never merged.
NodeExpandSkipsAnEdge(n) ==
    IF n.E = {} THEN {}
    ELSE {NewGraph(n, edge) : edge \in n.E \ {CHOOSE e \in n.E : TRUE}}

\* SearchSpaceNode.expand: one child per edge.
NodeExpand(n) == {NewGraph(n, edge) : edge \in n.E}

-----------------------------------------------------------------------------
(* SearchSpaceLevel                                                         *)

\* SearchSpaceLevel(graph=g): one node, the input graph with singleton clusters.
LevelFromGraph(g) ==
    [level |-> 0, nodes |-> {RootNode(g)}, nodesNone |-> FALSE,
     num_partitions |-> NoCount, next |-> None, previous |-> None]

\* SearchSpaceLevel(previous=p), p the id of a level of heap h.
LevelFromPrevious(h, p) ==
    [level |-> h[p].level + 1, nodes |-> {}, nodesNone |-> FALSE,
     num_partitions |-> NoCount, next |-> None, previous |-> p]

\* A faulty num_partitions: the recorded count is ignored.
NumPartitionsIgnoresCount(lv) == Cardinality(lv.nodes)

\* The property num_partitions.
NumPartitions(lv) ==
    IF lv.num_partitions # NoCount THEN lv.num_partitions ELSE Cardinality(lv.nodes)

\* add_node: a set insertion under __eq__/__hash__; an equal node already
\* present is kept and the new one dropped.
add_node(nodes, x) ==
    IF \E y \in nodes : NodeEq(y, x) THEN nodes ELSE nodes \cup {x}

\* add_node for each node of todo, one after the other.
RECURSIVE AddAll(_, _)
AddAll(nodes, todo) ==
    IF todo = {} THEN nodes
    ELSE LET x == CHOOSE y \in todo : TRUE
         IN  AddAll(add_node(nodes, x), todo \ {x})

\* A faulty compress: the node set is dropped before it is counted.
LevelCompressCountsAfterDrop(lv) ==
    IF ~lv.nodesNone
    THEN [lv EXCEPT !.num_partitions = 0, !.nodes = {}, !.nodesNone = TRUE]
    ELSE lv

\* A faulty compress: the node set is dropped and no count is recorded.
LevelCompressKeepsNoCount(lv) ==
    IF ~lv.nodesNone
    THEN [lv EXCEPT !.nodes = {}, !.nodesNone = TRUE]
    ELSE lv

\* compress(): record the count and drop the node set, once.
LevelCompress(lv) ==
    IF ~lv.nodesNone
    THEN [lv EXCEPT !.num_partitions = Cardinality(lv.nodes),
                    !.nodes = {}, !.nodesNone = TRUE]
    ELSE lv

\* expand() on level l of heap h once the 'Already expanded' test has passed:
\* the set of possible outcomes, each the heap afterwards, the exception
\* raised ("" for none) and the id returned.  The next level is linked before
\* the nodes are iterated, so an exception leaves it linked.  When a child
\* fails the assertion of SearchSpaceNode.expand, the next level holds the
\* children added before it: those of nodes iterated earlier (none of which
\* fails) and of some edges of the failing node.
ExpandFresh(h, l) ==
    LET new == Len(h) + 1
        h1 == Append([h EXCEPT ![l].next = new], LevelFromPrevious(h, l))
        nodes == h[l].nodes
        bad == {n \in nodes : \E e \in n.E : ~AssertOrder(n, e)}
    IN  IF h[l].nodesNone
        THEN {[heap |-> h1, err |-> "TypeError", ret |-> None]}
        ELSE IF bad = {}
        THEN {[heap |-> [h1 EXCEPT ![new].nodes =
                            AddAll({}, UNION {NodeExpand(n) : n \in nodes})],
               err |-> "", ret |-> new]}
        ELSE {[heap |-> [h1 EXCEPT ![new].nodes =
                            AddAll({}, UNION {NodeExpand(n) : n \in t[2]}
                                       \cup {NewGraph(t[1], e) : e \in t[3]})],
               err |-> "AssertionError", ret |-> None] :
                 t \in UNION {{<<f, d, p>> :
                                 d \in SUBSET (nodes \ bad),
                                 p \in SUBSET {e \in f.E : AssertOrder(f, e)}} :
                              f \in bad}}

\* A faulty expand: an already expanded level returns its next level.
ExpandReturnsExistingNext(h, l) ==
    IF h[l].next # None
    THEN {[heap |-> h, err |-> "", ret |-> h[l].next]}
    ELSE ExpandFresh(h, l)

\* SearchSpaceLevel.expand on level l of heap h.
ExpandOutcomes(h, l) ==
    IF h[l].next # None
    THEN {[heap |-> h, err |-> "ValueError: Already expanded", ret |-> None]}
    ELSE ExpandFresh(h, l)

\* A faulty mean_num_edges: a compressed level is treated as an empty one
\* and reports the default mean 0.
MeanNumEdgesDefaultsToZero(lv) ==
    IF lv.nodesNone \/ lv.nodes = {}
    THEN [err |-> "", val |-> <<0, 1>>]
    ELSE [err |-> "",
          val |-> <<Cardinality(UNION {{<<n, e>> : e \in n.E} : n \in lv.nodes}),
                    Cardinality(lv.nodes)>>]

\* mean_num_edges: the exception raised ("" for none) and the value as the
\* pair <<sum of the edge counts, number of nodes>>.
MeanNumEdges(lv) ==
    IF lv.nodesNone
    THEN [err |-> "ValueError: The search space is compressed, computation impossible",
          val |-> <<>>]
    ELSE IF lv.nodes = {}
    THEN [err |-> "ZeroDivisionError", val |-> <<>>]
    ELSE [err |-> "",
          val |-> <<Cardinality(UNION {{<<n, e>> : e \in n.E} : n \in lv.nodes}),
                    Cardinality(lv.nodes)>>]

-----------------------------------------------------------------------------
(* SearchSpace.build, statement by statement                                *)

Last(s) == s[Len(s)]

\* The record kept of the last call: the operation, its argument (a position
\* in _levels, or print_nodes as 0/1), the exception raised ("" for none), the
\* level id returned, the positions of the levels whose partitions were
\* printed, and the value returned by mean_num_edges.
Outcome(op, arg, err) ==
    [op |-> op, arg |-> arg, err |-> err, ret |-> None, dump |-> {}, val |-> <<>>]

Init ==
    /\ graph \in Graphs(MaxN)
    /\ compress \in BOOLEAN
    /\ heap = <<>>
    /\ levels = <<>>
    /\ pc = "idle"
    /\ builds = 0
    /\ result = Outcome("init", 0, "")

\* Lines 194-196: the first level from the graph, its expansion, and the
\* assignment of _levels.  A graph without nodes is falsy, so the level
\* constructor raises; an exception leaves _levels as it was.
BuildStart(maxb) ==
    /\ pc = "idle"
    /\ builds < maxb
    /\ builds' = builds + 1
    /\ UNCHANGED <<graph, compress>>
    /\ IF graph.nodes = {}
       THEN /\ result' = Outcome("build", 0, "ValueError: Either graph or previous needed")
            /\ UNCHANGED <<heap, levels, pc>>
       ELSE \E o \in ExpandOutcomes(<<LevelFromGraph(graph)>>, 1) :
              IF o.err # ""
              THEN /\ result' = Outcome("build", 0, o.err)
                   /\ UNCHANGED <<heap, levels, pc>>
              ELSE /\ heap' = o.heap
                   /\ levels' = <<1, o.ret>>
                   /\ pc' = "L198"
                   /\ result' = Outcome("build", 0, "running")

\* Lines 198-199.
Build198 ==
    /\ pc = "L198"
    /\ heap' = IF compress THEN [heap EXCEPT ![levels[1]] = LevelCompress(@)] ELSE heap
    /\ pc' = "L201"
    /\ UNCHANGED <<graph, compress, levels, builds, result>>

\* Line 201: the loop test.
Build201 ==
    /\ pc = "L201"
    /\ pc' = IF NumPartitions(heap[Last(levels)]) > 1 THEN "L202" ELSE "L207"
    /\ UNCHANGED <<graph, compress, heap, levels, builds, result>>

\* Line 202: expand the last level and append the new one.
Build202 ==
    /\ pc = "L202"
    /\ \E o \in ExpandOutcomes(heap, Last(levels)) :
         /\ heap' = o.heap
         /\ IF o.err # ""
            THEN /\ pc' = "idle"
                 /\ result' = Outcome("build", 0, o.err)
                 /\ UNCHANGED levels
            ELSE /\ pc' = "L204"
                 /\ levels' = Append(levels, o.ret)
                 /\ UNCHANGED result
    /\ UNCHANGED <<graph, compress, builds>>

\* A faulty version of lines 204-205: the level just appended is compressed
\* instead of the one before it.
Build204CompressesLast ==
    /\ pc = "L204"
    /\ heap' = IF compress THEN [heap EXCEPT ![Last(levels)] = LevelCompress(@)] ELSE heap
    /\ pc' = "L201"
    /\ UNCHANGED <<graph, compress, levels, builds, result>>

\* Lines 204-205.
Build204 ==
    /\ pc = "L204"
    /\ heap' = IF compress
               THEN [heap EXCEPT ![levels[Len(levels) - 1]] = LevelCompress(@)]
               ELSE heap
    /\ pc' = "L201"
    /\ UNCHANGED <<graph, compress, levels, builds, result>>

\* Lines 207-208.
Build207 ==
    /\ pc = "L207"
    /\ heap' = IF compress THEN [heap EXCEPT ![Last(levels)] = LevelCompress(@)] ELSE heap
    /\ pc' = "L210"
    /\ UNCHANGED <<graph, compress, levels, builds, result>>

\* Line 210: build returns.
Build210 ==
    /\ pc = "L210"
    /\ pc' = "idle"
    /\ result' = Outcome("build", 0, "")
    /\ UNCHANGED <<graph, compress, heap, levels, builds>>

-----------------------------------------------------------------------------
(* Calls of a driver on the levels of a search space, outside of build()    *)

Positions == 1..Len(levels)

\* sp.levels[i].expand()
DriverExpand(i) ==
    /\ pc = "idle"
    /\ \E o \in ExpandOutcomes(heap, levels[i]) :
         /\ heap' = o.heap
         /\ result' = [Outcome("expand", i, o.err) EXCEPT !.ret = o.ret]
    /\ UNCHANGED <<graph, compress, levels, pc, builds>>

\* sp.levels[i].compress()
DriverCompress(i) ==
    /\ pc = "idle"
    /\ heap' = [heap EXCEPT ![levels[i]] = LevelCompress(@)]
    /\ result' = Outcome("compress", i, "")
    /\ UNCHANGED <<graph, compress, levels, pc, builds>>

\* sp.levels[i].mean_num_edges()
DriverMeanNumEdges(i) ==
    /\ pc = "idle"
    /\ LET m == MeanNumEdges(heap[levels[i]])
       IN  result' = [Outcome("mean_num_edges", i, m.err) EXCEPT !.val = m.val]
    /\ UNCHANGED <<graph, compress, heap, levels, pc, builds>>

\* The positions of the levels whose partitions print_results prints: a level
\* is dumped when its node set is truthy (neither None nor empty) and
\* print_nodes is set.
PrintedLevels(print_nodes) ==
    {i \in Positions :
        /\ ~heap[levels[i]].nodesNone
        /\ heap[levels[i]].nodes # {}
        /\ print_nodes}

\* sp.print_results(print_nodes) on a search space that has levels.
PrintResults(print_nodes) ==
    /\ pc = "idle"
    /\ levels # <<>>
    /\ result' = [Outcome("print_results", IF print_nodes THEN 1 ELSE 0, "")
                    EXCEPT !.dump = PrintedLevels(print_nodes)]
    /\ UNCHANGED <<graph, compress, heap, levels, pc, builds>>

-----------------------------------------------------------------------------
(* SearchSpace: derived statistics                                          *)

num_nodes == Cardinality(graph.nodes)

\* sympy's binomial(n, k) for integers n >= 0 and k (0 for k < 0 or k > n).
RECURSIVE binomial(_, _)
binomial(n, k) ==
    IF k < 0 \/ k > n THEN 0
    ELSE IF k = 0 \/ k = n THEN 1
    ELSE binomial(n - 1, k - 1) + binomial(n - 1, k)

\* sympy's stirling(n, k), of the second kind, for 0 <= k <= n.
RECURSIVE stirling2(_, _)
stirling2(n, k) ==
    IF n = k THEN 1
    ELSE IF k = 0 \/ k > n THEN 0
    ELSE k * stirling2(n - 1, k) + stirling2(n - 1, k - 1)

RECURSIVE SumTo(_, _)
SumTo(f, n) == IF n = 0 THEN 0 ELSE f[n] + SumTo(f, n - 1)

\* SearchSpace.bell: the Bell number of the node count.
bell == SumTo([k \in 1..(num_nodes + 1) |-> stirling2(num_nodes, k - 1)], num_nodes + 1)

\* SearchSpace.stirling(level)
stirling(level) == stirling2(num_nodes, num_nodes - level)

\* SearchSpace.num_partitions_ub
num_partitions_ub == bell

\* SearchSpace.num_partitions_lb: 2 ** (n - 1)
num_partitions_lb == 2 ^ (num_nodes - 1)

\* SearchSpace.num_partitions(level): level is a 0-based index into _levels.
num_partitions(level) == NumPartitions(heap[levels[level + 1]])

\* SearchSpace.num_partitions(): the sum over all levels.
num_partitions_total ==
    SumTo([i \in Positions |-> NumPartitions(heap[levels[i]])], Len(levels))

\* SearchSpace.num_k_partitions_ub(level)
num_k_partitions_ub(level) == stirling(level)

\* A faulty lower bound: binomial(n, k - 1) instead of binomial(n - 1, k - 1).
num_k_partitions_lb_of_n(level) == binomial(num_nodes, num_nodes - level - 1)

\* SearchSpace.num_k_partitions_lb(level)
num_k_partitions_lb(level) == binomial(num_nodes - 1, num_nodes - level - 1)

\* SearchSpace.num_levels
num_levels == Len(levels)

Next ==
    \/ BuildStart(1)
    \/ Build198
    \/ Build201
    \/ Build202
    \/ Build204
    \/ Build207
    \/ Build210

Spec == Init /\ [][Next]_vars

ApiInit ==
    /\ Init
    /\ graph \in Graphs(MaxApiN)

ApiNext ==
    \/ BuildStart(MaxBuilds)
    \/ Build198
    \/ Build201
    \/ Build202
    \/ Build204
    \/ Build207
    \/ Build210
    \/ \E i \in Positions : DriverExpand(i)
    \/ \E i \in Positions : DriverCompress(i)
    \/ \E i \in Positions : DriverMeanNumEdges(i)
    \/ \E b \in BOOLEAN : PrintResults(b)

ApiSpec == ApiInit /\ [][ApiNext]_vars


-----------------------------------------------------------------------------
(* Properties                                                               *)

\* build() has returned normally and nothing was called since.
Built == pc = "idle" /\ result.op = "build" /\ result.err = ""

LastLevel == heap[Last(levels)]

\* The sizes of the levels, in the order of _levels.
LevelSizes == [i \in Positions |-> NumPartitions(heap[levels[i]])]

\* All partitions of the set S into non-empty, pairwise disjoint blocks.
RECURSIVE SetPartitions(_)
SetPartitions(S) ==
    IF S = {} THEN {{}}
    ELSE LET m == CHOOSE x \in S : \A y \in S : x <= y
         IN  UNION {{P \cup {B \cup {m}} : P \in SetPartitions(S \ (B \cup {m}))} :
                    B \in SUBSET (S \ {m})}

\* The block B induces a connected subgraph of g.
InducesConnected(g, B) ==
    Reach({CHOOSE v \in B : TRUE}, {e \in g.edges : e \subseteq B}) = B

\* The partitions of the nodes of g into k blocks that each induce a
\* connected subgraph.
ConnectedPartitions(g, k) ==
    {P \in SetPartitions(g.nodes) :
        Cardinality(P) = k /\ \A B \in P : InducesConnected(g, B)}

IsComplete(g) == g.edges = Pairs(g.nodes)

IsTree(g) == is_connected(g) /\ Cardinality(g.edges) = Cardinality(g.nodes) - 1

Cycle4 == [nodes |-> 1..4, edges |-> {{1, 2}, {2, 3}, {3, 4}, {1, 4}}]

\* C1 (as claimed): after build() on a connected graph with n >= 1 nodes the
\* search space has exactly n levels, level 0 holds exactly one partition
\* node, and the final level holds exactly one partition node, which has no
\* edges.
C1_LevelsOfConnectedGraph ==
    (Built /\ is_connected(graph)) =>
        /\ num_levels = num_nodes
        /\ num_partitions(0) = 1
        /\ NumPartitions(LastLevel) = 1
        /\ \A x \in LastLevel.nodes : x.E = {}

\* C1 on graphs of at least two nodes (not the claim: the claim covers n = 1).
C1_HoldsFromTwoNodes ==
    (Built /\ is_connected(graph) /\ num_nodes >= 2) =>
        /\ num_levels = num_nodes
        /\ num_partitions(0) = 1
        /\ NumPartitions(LastLevel) = 1
        /\ \A x \in LastLevel.nodes : x.E = {}

\* C2: built without compression from a connected graph, the nodes of the
\* level with index i are, one for one, the partitions of the node set into
\* n - i clusters that each induce a connected subgraph: the vertex sets of
\* the level's nodes are exactly these partitions and no two nodes of the
\* level have the same vertex set.
C2_LevelsAreConnectedPartitions ==
    (Built /\ ~compress /\ is_connected(graph)) =>
        \A i \in Positions :
            LET lv == heap[levels[i]]
            IN  /\ {x.V : x \in lv.nodes} = ConnectedPartitions(graph, num_nodes - lv.level)
                /\ Cardinality(lv.nodes) =
                       Cardinality(ConnectedPartitions(graph, num_nodes - lv.level))

\* C2 happens: an uncompressed build of a connected 4-node graph that is
\* neither a tree nor complete, with a level of several partitions.
C2_Witness ==
    /\ Built /\ ~compress /\ is_connected(graph)
    /\ num_nodes = 4 /\ ~IsTree(graph) /\ ~IsComplete(graph)
    /\ \E i \in Positions : Cardinality(heap[levels[i]].nodes) > 4

\* C3: for a connected graph, at every level of the search space,
\* num_k_partitions_lb <= num_partitions <= num_k_partitions_ub.
C3_CountsWithinBounds ==
    (Built /\ is_connected(graph)) =>
        \A l \in 0..(num_levels - 1) :
            /\ num_k_partitions_lb(l) <= num_partitions(l)
            /\ num_partitions(l) <= num_k_partitions_ub(l)

\* C3 happens: a built connected graph with a level strictly between its
\* two bounds.
C3_Witness ==
    /\ Built /\ is_connected(graph)
    /\ \E l \in 0..(num_levels - 1) :
          /\ num_k_partitions_lb(l) < num_partitions(l)
          /\ num_partitions(l) < num_k_partitions_ub(l)

\* C4: for a complete graph the total partition count over all levels is
\* the Bell number of the node count.
C4_CompleteGraphTotalIsBell ==
    (Built /\ IsComplete(graph)) => num_partitions_total = bell

\* C4 happens: the complete graph on 4 nodes has been built (Bell number 15).
C4_Witness ==
    Built /\ IsComplete(graph) /\ num_nodes = 4 /\ num_partitions_total = 15

\* C5: for a tree, the partition count of level i is binomial(n - 1, i) and
\* the total over all levels is 2^(n-1) = num_partitions_lb.
C5_TreeCounts ==
    (Built /\ IsTree(graph)) =>
        /\ \A l \in 0..(num_levels - 1) : num_partitions(l) = binomial(num_nodes - 1, l)
        /\ num_partitions_total = num_partitions_lb

\* C5 happens: a tree on 4 nodes has been built, with compression.
C5_Witness ==
    Built /\ IsTree(graph) /\ num_nodes = 4 /\ compress /\ num_partitions_total = 8

\* C6 (as claimed): the 4-cycle has levels of sizes 1, 4, 3, 1, in total 9.
C6_Cycle4AsClaimed ==
    (Built /\ graph = Cycle4) =>
        LevelSizes = <<1, 4, 3, 1>> /\ num_partitions_total = 9

\* C6 (amended): the 4-cycle has levels of sizes 1, 4, 6, 1, in total 12.
C6_Cycle4Sizes ==
    (Built /\ graph = Cycle4) =>
        LevelSizes = <<1, 4, 6, 1>> /\ num_partitions_total = 12

\* C6 happens: the 4-cycle has been built.
C6_Witness == Built /\ graph = Cycle4 /\ num_levels = 4

CompressedError == "ValueError: The search space is compressed, computation impossible"

\* A step that calls compress() on a level: the compress statements of
\* build() and the driver's own calls.
CompressStep ==
    \/ Build198
    \/ Build204
    \/ Build207
    \/ \E i \in Positions : DriverCompress(i)

\* C7: a compress() call, the first on a level or a further one, leaves the
\* num_partitions of every level as it was immediately before the call.
C7_CompressKeepsNumPartitions ==
    [][CompressStep =>
          \A l \in DOMAIN heap : NumPartitions(heap'[l]) = NumPartitions(heap[l])]_vars

\* C7 happens: compress() was called on a level of several partitions that
\* build() had compressed already.
C7_Witness ==
    /\ compress /\ builds >= 1 /\ pc = "idle"
    /\ result.op = "compress"
    /\ heap[levels[result.arg]].nodesNone
    /\ NumPartitions(heap[levels[result.arg]]) >= 2

\* C8 (as claimed): a build() call on a search space that has been built
\* raises, and leaves the level sequence and the per-level counts as they
\* were ("running" marks a build() that has passed line 196 without raising).
C8_SecondBuildFails ==
    [][(is_connected(graph) /\ pc = "idle" /\ builds >= 1 /\ builds' = builds + 1) =>
          /\ result'.op = "build"
          /\ result'.err \notin {"", "running"}
          /\ LevelSizes' = LevelSizes]_vars

\* C9: expand() on a level that has a next level raises 'Already expanded',
\* returns no level, and leaves every level (its node set, its links, the
\* next level's node set) and the level sequence unchanged.
C9_ReexpandFails ==
    [][\A i \in Positions :
          (DriverExpand(i) /\ heap[levels[i]].next # None) =>
              /\ result'.err = "ValueError: Already expanded"
              /\ result'.ret = None
              /\ heap' = heap
              /\ levels' = levels]_vars

\* C9 happens: expand() was called on a level whose next level holds
\* several partitions, and raised.
C9_Witness ==
    /\ result.op = "expand"
    /\ result.err = "ValueError: Already expanded"
    /\ heap[levels[result.arg]].next # None
    /\ Cardinality(heap[heap[levels[result.arg]].next].nodes) >= 2

-----------------------------------------------------------------------------
(* Partition nodes as members of a level's node set: fset ordering, hashing, *)
(* set insertion and node expansion, on nodes a driver builds itself         *)
(* (NodeSpec)                                                                *)

\* Clusters of the driver's partition nodes are made of the nodes 1..MaxGround.
MaxGround == 3
\* Largest number of edges of a driver's partition node.
MaxNodeEdges == 2
\* The partition nodes a driver can pass: the partitions of the nodes 1..k
\* of a graph into non-empty clusters, some of them joined by edges, the
\* others isolated.
PartitionNodes ==
    UNION {{[V |-> P, E |-> E] :
               E \in {F \in SUBSET Pairs(P) : Cardinality(F) <= MaxNodeEdges}} :
           P \in UNION {SetPartitions(1..k) : k \in 1..MaxGround}}

\* The orders in which iterating graph.edges can yield the edges of E: each
\* edge once, as a pair (u, v) in either orientation, in any order (both
\* depend on the order in which the graph was built).
RECURSIVE EdgeViews(_)
EdgeViews(E) ==
    IF E = {} THEN {<<>>}
    ELSE UNION {{<<t>> \o v :
                    t \in {u \in e \X e : u[1] # u[2]}, v \in EdgeViews(E \ {e})} :
                e \in E}

\* min(c)
MinOf(c) == CHOOSE m \in c : \A z \in c : m <= z

\* sorted(c) for a cluster c.
RECURSIVE SortedMembers(_)
SortedMembers(c) ==
    IF c = {} THEN <<>> ELSE <<MinOf(c)>> \o SortedMembers(c \ {MinOf(c)})

\* The loop of fset.__lt__ over the sorted members, from position idx, and
\* the length test after it.
RECURSIVE LtFrom(_, _, _)
LtFrom(x_sorted, y_sorted, idx) ==
    IF idx > Len(x_sorted) THEN Len(x_sorted) < Len(y_sorted)
    ELSE IF idx > Len(y_sorted) THEN FALSE
    ELSE IF x_sorted[idx] < y_sorted[idx] THEN TRUE
    ELSE IF x_sorted[idx] > y_sorted[idx] THEN FALSE
    ELSE LtFrom(x_sorted, y_sorted, idx + 1)

\* frozenset's own <, the proper-subset test, which fset would inherit
\* without its __lt__.
fsetLtIsProperSubset(x, y) == x # y /\ x \subseteq y

\* fset.__lt__
fsetLt(x, y) ==
    IF MinOf(x) < MinOf(y) THEN TRUE
    ELSE IF MinOf(x) > MinOf(y) THEN FALSE
    ELSE LtFrom(SortedMembers(x), SortedMembers(y), 1)

\* tuple(sorted(e)) for an edge e = (u, v): v moves to the front when v < u.
SortedEdge(e) == IF fsetLt(e[2], e[1]) THEN <<e[2], e[1]>> ELSE e

\* Python's < on two pairs of clusters: decided by __lt__ at the first
\* position where the pairs differ.
TupleLt(s, t) ==
    IF s[1] # t[1] THEN fsetLt(s[1], t[1])
    ELSE IF s[2] # t[2] THEN fsetLt(s[2], t[2])
    ELSE FALSE

\* Insertion of the pair t into the sorted sequence s, after every element
\* that is not greater than t.
RECURSIVE InsertTuple(_, _)
InsertTuple(s, t) ==
    IF s = <<>> THEN <<t>>
    ELSE IF TupleLt(t, s[Len(s)])
    THEN Append(InsertTuple(SubSeq(s, 1, Len(s) - 1), t), s[Len(s)])
    ELSE Append(s, t)

\* sorted(...) of a sequence of pairs: a stable insertion sort, which is
\* what Python's sort does on short lists.
RECURSIVE SortedTuples(_)
SortedTuples(s) ==
    IF s = <<>> THEN <<>>
    ELSE InsertTuple(SortedTuples(SubSeq(s, 1, Len(s) - 1)), s[Len(s)])

\* SearchSpaceNode.__hash__ of a node whose edges iterate as `view`: the
\* sorted tuple of sorted edges whose hash is returned (equal tuples have
\* equal hashes).
NodeHash(view) == SortedTuples([i \in DOMAIN view |-> SortedEdge(view[i])])

\* An entry of a Python set of nodes: the node with the hash stored for it.
Entry(x, h) == [V |-> x.V, E |-> x.E, h |-> h]

\* set.add(y) on a set of entries, h the hash of y: y is dropped when an
\* entry has the same hash and compares equal, and is added otherwise.
SetAdd(entries, y, h) ==
    IF \E x \in entries : x.h = h /\ NodeEq(x, y)
    THEN entries
    ELSE entries \cup {Entry(y, h)}

\* SearchSpaceNode.expand, consumed to its end: the child yielded for each
\* edge, or the AssertionError that the first failing child raises.
NodeExpandAll(n) ==
    IF \E edge \in n.E : ~AssertOrder(n, edge)
    THEN [err |-> "AssertionError", children |-> <<>>]
    ELSE [err |-> "", children |-> [edge \in n.E |-> NewGraph(n, edge)]]

\* A level built from a driver's graph of clusters, whose node is x.
NodeInit ==
    /\ \E x \in PartitionNodes : \E view \in EdgeViews(x.E) :
         /\ graph = [nodes |-> x.V, edges |-> x.E]
         /\ heap = <<[level |-> 0, nodes |-> {Entry(x, NodeHash(view))},
                      nodesNone |-> FALSE, num_partitions |-> NoCount,
                      next |-> None, previous |-> None]>>
    /\ compress = FALSE
    /\ levels = <<>>
    /\ pc = "idle"
    /\ builds = 0
    /\ result = Outcome("init", 0, "")

\* level.add_node(y), y a node whose edges iterate as `view`, on a level that
\* holds one entry: the insertion of a second node, which decides whether
\* the two nodes are one entry or two.
AddNode(y, view) ==
    /\ Cardinality(heap[1].nodes) = 1
    /\ heap' = [heap EXCEPT ![1].nodes = SetAdd(@, y, NodeHash(view))]
    /\ result' = [Outcome("add_node", 0, "") EXCEPT !.val = <<y, NodeHash(view)>>]
    /\ UNCHANGED <<graph, compress, levels, pc, builds>>

\* list(x.expand()) for a node x of the level.
ExpandNode(x) ==
    /\ result' = [Outcome("node_expand", 0, NodeExpandAll(x).err)
                    EXCEPT !.val = <<[V |-> x.V, E |-> x.E], NodeExpandAll(x).children>>]
    /\ UNCHANGED <<graph, compress, heap, levels, pc, builds>>

NodeNext ==
    \/ \E y \in PartitionNodes : \E view \in EdgeViews(y.E) : AddNode(y, view)
    \/ \E x \in heap[1].nodes : ExpandNode(x)

NodeSpec == NodeInit /\ [][NodeNext]_vars

\* C11: two partition nodes with identical edge sets compare equal and have
\* equal hashes, whatever the order their edges iterate in and whatever
\* their vertex sets; a level's node set into which both were inserted
\* holds exactly one entry for that edge set.
C11_EqualEdgesOneEntry ==
    /\ \A x \in heap[1].nodes : \A y \in heap[1].nodes :
          x.E = y.E => x = y
    /\ result.op = "add_node" =>
          \A x \in heap[1].nodes :
              x.E = result.val[1].E =>
                  /\ NodeEq(x, result.val[1])
                  /\ x.h = result.val[2]
                  /\ \A view \in EdgeViews(x.E) : NodeHash(view) = x.h

\* C11 happens: a node with an edge was inserted into a level that
\* holds a node with the same edges and another vertex set, and the level
\* still holds one entry.
C11_Witness ==
    /\ result.op = "add_node"
    /\ result.val[1].E # {}
    /\ Cardinality(heap[1].nodes) = 1
    /\ \E x \in heap[1].nodes : x.E = result.val[1].E /\ x.V # result.val[1].V

-----------------------------------------------------------------------------
(* The level constructor, called directly by a driver.                     *)

\* Largest number of level objects the driver constructs.
MaxCtorLevels == 3

\* networkx.Graph(): a graph without nodes.
EmptyGraph == [nodes |-> {}, edges |-> {}]

\* SearchSpaceLevel(graph=..., previous=...) on the heap h.  `given` tells
\* whether a graph object g is passed (otherwise graph is None); p is the id
\* of the level passed as previous, None for None.  The conditions of lines
\* 120-123 and 127-129 test the truth values of the arguments: None and a
\* graph without nodes (len() = 0) are false, a level object is true.
LevelInit(h, given, g, p) ==
    LET graphTrue == given /\ g.nodes # {}
        previousTrue == p # None
    IN  IF graphTrue /\ previousTrue
        THEN [err |-> "ValueError: Only one of graph and previous allowed", heap |-> h, ret |-> None]
        ELSE IF ~graphTrue /\ ~previousTrue
        THEN [err |-> "ValueError: Either graph or previous needed", heap |-> h, ret |-> None]
        ELSE IF graphTrue
        THEN [err |-> "", heap |-> Append(h, LevelFromGraph(g)), ret |-> Len(h) + 1]
        ELSE [err |-> "", heap |-> Append(h, LevelFromPrevious(h, p)), ret |-> Len(h) + 1]

\* The driver holds a graph and no level yet.
CtorInit ==
    /\ graph \in Graphs(MaxApiN)
    /\ compress = FALSE
    /\ heap = <<>>
    /\ levels = <<>>
    /\ pc = "idle"
    /\ builds = 0
    /\ result = Outcome("init", 0, "")

\* One constructor call; result.val records the arguments.
ConstructLevel(given, g, p) ==
    /\ Len(heap) < MaxCtorLevels
    /\ heap' = LevelInit(heap, given, g, p).heap
    /\ result' = [Outcome("level_init", 0, LevelInit(heap, given, g, p).err)
                     EXCEPT !.ret = LevelInit(heap, given, g, p).ret,
                            !.val = <<given, g, p>>]
    /\ UNCHANGED <<graph, compress, levels, pc, builds>>

CtorNext ==
    \E given \in BOOLEAN, g \in {graph, EmptyGraph}, p \in {None} \cup DOMAIN heap :
        ConstructLevel(given, g, p)

CtorSpec == CtorInit /\ [][CtorNext]_vars

\* C12: a constructor call that passes both a graph (with or without nodes)
\* and a predecessor level, or neither of them, raises an error and creates
\* no level object.
C12_InvalidConstructionRejected ==
    result.op = "level_init" =>
        LET given == result.val[1]
            p == result.val[3]
        IN  ((given /\ p # None) \/ (~given /\ p = None)) =>
                /\ result.err # ""
                /\ result.ret = None

-----------------------------------------------------------------------------
(* Termination of build().                                                 *)

\* build() is straight-line code around one loop, run by one thread: a step
\* that can be taken is eventually taken.
FairSpec == Spec /\ WF_vars(Next)

\* From each level of _levels to the next, the nodes have one cluster less.
ClusterCountsDecrease ==
    \A i \in 1..(Len(levels) - 1) :
        \A x \in heap[levels[i]].nodes : \A y \in heap[levels[i + 1]].nodes :
            Cardinality(y.V) = Cardinality(x.V) - 1

\* C13: a build() started on a connected graph returns, with cluster counts
\* that decrease by one from level to level and with a last level whose
\* num_partitions is 1.
C13_BuildEndsAtOnePartition ==
    (is_connected(graph) /\ pc = "L198")
        ~> (Built /\ ClusterCountsDecrease /\ NumPartitions(LastLevel) = 1)

\* The part of C13 that holds: every build() on a connected graph returns,
\* and from two nodes on it ends as C13 says.
C13_BuildReturns == (is_connected(graph) /\ pc = "L198") ~> Built

C13_HoldsFromTwoNodes ==
    (is_connected(graph) /\ Cardinality(graph.nodes) >= 2 /\ pc = "L198")
        ~> (Built /\ ClusterCountsDecrease /\ NumPartitions(LastLevel) = 1)

-----------------------------------------------------------------------------
(* Compression during build().                                             *)

\* The positions in _levels of the levels that hold a node set.
Uncompressed == {i \in Positions : ~heap[levels[i]].nodesNone}

\* The level at position i has been compressed and has no successor.
CompressedWithoutNext(i) ==
    heap[levels[i]].nodesNone /\ heap[levels[i]].next = None

\* At most two levels hold a node set, and when the loop is about to test
\* or to expand the last level, every level before it has been compressed
\* and the last level has not.
CompressFollowsExpand ==
    /\ Cardinality(Uncompressed) <= 2
    /\ pc \in {"L201", "L202", "L207"} => Uncompressed = {Len(levels)}

\* C14 as stated: with compression, at most two levels hold a node set, a
\* level is compressed before the level after its successor is computed,
\* and no level is compressed while it has no successor.
C14_CompressedOnlyWithSuccessor ==
    compress =>
        /\ CompressFollowsExpand
        /\ \A i \in Positions : ~CompressedWithoutNext(i)

\* C14, amended: as above, except that the last level is compressed
\* without a successor once the loop has ended.
C14_CompressedWithSuccessorOrLast ==
    compress =>
        /\ CompressFollowsExpand
        /\ \A i \in Positions :
              CompressedWithoutNext(i) => i = Len(levels) /\ pc \in {"L210", "idle"}

\* C14 happens: with compression, the loop is about to compute a fourth
\* level while the first two are compressed and the third is not.
C14_Witness ==
    /\ compress
    /\ pc = "L202"
    /\ Len(levels) = 3
    /\ Uncompressed = {3}

-----------------------------------------------------------------------------
(* The children of a partition node.                                       *)

\* The child C15 describes for the edge `edge` of the node n.
ClaimedChild(n, edge) ==
    [V |-> (n.V \ edge) \cup {UNION edge},
     E |-> {{IF a \in edge THEN UNION edge ELSE a : a \in e} : e \in n.E \ {edge}}]

\* The vertices of n that no edge of n touches.
IsolatedVertices(n) == n.V \ UNION n.E

\* C15: expand on a partition node does not fail and yields, for every edge
\* of the node, the child whose vertices are the parent's without the two
\* endpoints plus their union, and whose edges are the parent's other edges
\* with the endpoints replaced by the union.
C15_ExpandYieldsClaimedChildren ==
    result.op = "node_expand" =>
        /\ result.err = ""
        /\ \A edge \in result.val[1].E :
              result.val[2][edge] = ClaimedChild(result.val[1], edge)

\* The part of C15 that holds: on a node whose vertices all have an edge,
\* and on a node without edges, expand yields the children C15 describes.
C15_HoldsWithoutIsolatedVertices ==
    (/\ result.op = "node_expand"
     /\ (IsolatedVertices(result.val[1]) = {} \/ result.val[1].E = {})) =>
        /\ result.err = ""
        /\ \A edge \in result.val[1].E :
              result.val[2][edge] = ClaimedChild(result.val[1], edge)

-----------------------------------------------------------------------------
(* Vertex counts and level indices.                                        *)

\* C16: in every state of a build from a connected graph with n nodes, every
\* node of a level with index i has n - i vertices, a level made from a
\* predecessor has the predecessor's index plus one (so that the level at
\* position i of _levels has index i - 1), and no merge fails the assertion
\* of expand.
C16_VertexCountByLevel ==
    is_connected(graph) =>
        /\ \A l \in DOMAIN heap : \A x \in heap[l].nodes :
              /\ Cardinality(x.V) = num_nodes - heap[l].level
              /\ \A edge \in x.E : AssertOrder(x, edge)
        /\ \A l \in DOMAIN heap :
              heap[l].previous # None => heap[l].level = heap[heap[l].previous].level + 1
        /\ \A i \in Positions : heap[levels[i]].level = i - 1
        /\ result.err # "AssertionError"

\* C16 happens: during an uncompressed build from a connected 4-node graph
\* the loop is about to expand the level with index 2, which holds several
\* nodes of two vertices.
C16_Witness ==
    /\ is_connected(graph) /\ num_nodes = 4 /\ ~compress
    /\ pc = "L202"
    /\ LastLevel.level = 2
    /\ Cardinality(LastLevel.nodes) >= 2
    /\ \A x \in LastLevel.nodes : Cardinality(x.V) = 2

-----------------------------------------------------------------------------
(* build() as a function of the graph and the compress flag, and the       *)
(* records of a search space.                                              *)

\* Lines 201-208 from the loop test on, on the heap h and the level
\* sequence ls with the flag c: what build leaves behind, and the exception
\* it raises ("" for none).  An expansion either succeeds, with one outcome,
\* or fails in every outcome.
RECURSIVE BuildLoop(_, _, _)
BuildLoop(h, ls, c) ==
    IF NumPartitions(h[Last(ls)]) > 1
    THEN LET o == CHOOSE x \in ExpandOutcomes(h, Last(ls)) : TRUE
         IN  IF o.err # ""
             THEN [err |-> o.err, heap |-> o.heap, levels |-> ls]
             ELSE BuildLoop(IF c THEN [o.heap EXCEPT ![Last(ls)] = LevelCompress(@)]
                                 ELSE o.heap,
                            Append(ls, o.ret), c)
    ELSE [err |-> "",
          heap |-> IF c THEN [h EXCEPT ![Last(ls)] = LevelCompress(@)] ELSE h,
          levels |-> ls]

\* SearchSpace(g, compress=c).build() on a fresh search space.
RunBuild(g, c) ==
    IF g.nodes = {}
    THEN [err |-> "ValueError: Either graph or previous needed", heap |-> <<>>, levels |-> <<>>]
    ELSE LET o == CHOOSE x \in ExpandOutcomes(<<LevelFromGraph(g)>>, 1) : TRUE
         IN  IF o.err # ""
             THEN [err |-> o.err, heap |-> <<>>, levels |-> <<>>]
             ELSE BuildLoop(IF c THEN [o.heap EXCEPT ![1] = LevelCompress(@)] ELSE o.heap,
                            <<1, o.ret>>, c)

\* SearchSpace.num_edges
num_edges == Cardinality(graph.edges)

\* to_record of a search space on `graph` whose levels are ls on the heap h
\* (without 'name', an attribute of the input graph).
ToRecord(h, ls) ==
    [n |-> num_nodes,
     m |-> num_edges,
     num_partitions_ub |-> num_partitions_ub,
     num_partitions_lb |-> num_partitions_lb,
     num_partitions |-> SumTo([i \in 1..Len(ls) |-> NumPartitions(h[ls[i]])], Len(ls))]

\* levels_to_records of a search space on `graph` whose levels are ls on h.
LevelsToRecords(h, ls) ==
    [i \in 1..Len(ls) |->
        [level |-> h[ls[i]].level,
         k |-> num_nodes - h[ls[i]].level,
         num_k_partitions_ub |-> num_k_partitions_ub(h[ls[i]].level),
         num_k_partitions_lb |-> num_k_partitions_lb(h[ls[i]].level),
         num_k_partitions |-> NumPartitions(h[ls[i]])]]

to_record == ToRecord(heap, levels)

levels_to_records == LevelsToRecords(heap, levels)

\* C17: a build() that has ended ends the same way with the other compress
\* setting on the same graph: the same exception if it failed, and otherwise
\* as many levels, the same num_partitions at every level, and the same
\* to_record and levels_to_records values; the two results are the same
\* once every level is compressed, with compress=True every level has its
\* node set discarded and with compress=False none has.
C17_CompressKeepsCounts ==
    (pc = "idle" /\ result.op = "build") =>
        LET this == RunBuild(graph, compress)
            other == RunBuild(graph, ~compress)
        IN  /\ this.err = result.err
            /\ other.err = result.err
            /\ Built =>
                 /\ this.heap = heap /\ this.levels = levels
                 /\ Len(other.levels) = Len(levels)
                 /\ \A i \in Positions :
                      /\ NumPartitions(other.heap[other.levels[i]]) = NumPartitions(heap[levels[i]])
                      /\ LevelCompress(other.heap[other.levels[i]]) = LevelCompress(heap[levels[i]])
                      /\ heap[levels[i]].nodesNone = compress
                      /\ other.heap[other.levels[i]].nodesNone = ~compress
                 /\ ToRecord(other.heap, other.levels) = to_record
                 /\ LevelsToRecords(other.heap, other.levels) = levels_to_records

\* C17 happens: a build with compression from a connected 4-node graph
\* ended with four compressed levels, one of which counts several partitions.
C17_Witness ==
    /\ Built /\ compress /\ is_connected(graph) /\ num_nodes = 4
    /\ Len(levels) = 4
    /\ \A i \in Positions : heap[levels[i]].nodesNone
    /\ to_record.num_partitions > 4
    /\ levels_to_records[2].num_k_partitions > 1

====
